---- MODULE Spec2Model ----
(***************************************************************************)
(* Model of the product optimization pipeline of the WooCommerce SEO       *)
(* agent: backend/worker.py (process_optimization), backend/models.py      *)
(* (OptimizationHistory, the result ledger), backend/wp_api.py (the        *)
(* catalog client) and backend/main.py (the optimize-content trigger).     *)
(*                                                                         *)
(* A run of process_optimization is modelled step by step: every external  *)
(* call (page fetch, generation call, catalog update) is one action whose  *)
(* outcome is either a normal return or a raised exception.                *)
(***************************************************************************)
EXTENDS Integers, Sequences, FiniteSets, TLC

\* ---------------------------------------------------------------- bounds
NumProducts == 1     \* product identifiers 1..NumProducts
MaxItems    == 2     \* items the catalog serves to one run, over all its pages
MaxCap      == 1     \* largest explicit max_products a caller passes
MaxHistory  == 1     \* results in the ledger when the process or a run starts
MaxLedger   == 3     \* results in a ledger that add_result is called on directly
MaxTime     == 2     \* timestamps 1..MaxTime of results handed to add_result
MaxLines    == 2     \* lines of a response to the title and slug prompt

\* ------------------------------------------------------ program constants
per_page      == 10  \* worker.py:304
DEFAULT_LIMIT == 10  \* worker.py:306, "max_products or 10"
RECENT_DAYS   == 30  \* worker.py:560, days: int = 30
None          == -1  \* encoding of Python's None for max_products
NoDate        == -1  \* encoding of an empty last-modified value

\* no function call is being looked at
NoCall == [op |-> "none"]

Products == 1..NumProducts

VARIABLES
    ledger,             \* optimization_history.results (in memory)
    file,               \* contents of optimization_history.json
    catalog,            \* the WooCommerce catalog: per product, what was written
    clock,              \* datetime.now()
    pc,                 \* position of process_optimization
    page,               \* local: page
    products,           \* local: products (identifiers of the fetched page)
    idx,                \* position of the for loop in products
    products_processed, \* local: products_processed
    max_products,       \* parameter
    force_update,       \* parameter
    dry_run,            \* parameter
    processed_ids,      \* local: processed_ids
    startLen,           \* history: len(results) when the run started
    genCalls,           \* history: products a generation call was issued for in this run
    updateCalls,        \* history: products update_product was called for in this run
    served,             \* catalog: items get_products has returned in this run
    fetched,            \* catalog: number of the page whose items are in products
    outcome,            \* history: how the last step of the run ended
    exit,               \* history: why the paging loop was left
    returned,           \* value returned by the last finished run
    response,           \* HTTP response of the last optimize-content request
    call                \* a single function call looked at on its own: its input and result

vars == <<ledger, file, catalog, clock, pc, page, products, idx,
          products_processed, max_products, force_update, dry_run,
          processed_ids, startLen, genCalls, updateCalls, served, fetched,
          outcome, exit, returned, response, call>>

\* ------------------------------------------------------------- the ledger

\* models.py: OptimizationResult, reduced to the fields the pipeline and the
\* ledger operations decide on. A result the pipeline builds has a product
\* link that is never empty (worker.py:334: the permalink, or a URL built
\* from the slug).
OptimizationResult(id, st, ts) ==
    [product_id |-> id, status |-> st, timestamp |-> ts, product_link |-> "link"]

\* models.py: get_processed_ids
get_processed_ids_success_only(results) ==
    {results[i].product_id : i \in {j \in DOMAIN results : results[j].status = "success"}}

get_processed_ids(results) ==
    {results[i].product_id : i \in DOMAIN results}

\* position of s[i] in the stable ascending order by timestamp
Rank(s, i) ==
    Cardinality({j \in DOMAIN s :
                    \/ s[j].timestamp < s[i].timestamp
                    \/ s[j].timestamp = s[i].timestamp /\ j <= i})

\* Python's sorted(..., key=lambda x: x.timestamp): ascending and stable
sorted(s) ==
    [k \in DOMAIN s |-> s[CHOOSE i \in DOMAIN s : Rank(s, i) = k]]

\* models.py: get_results (the instance worker.py builds at import time is
\* the models.py one: line 31 runs before the class is redefined at line 661)
get_results_unsorted(results) == results

get_results(results) == sorted(results)

\* datetime.isoformat and datetime.fromisoformat: the timestamp is stored in
\* the file as text and read back as a datetime
isoformat(t) == [iso |-> t]

fromisoformat(s) == s.iso

\* optimization_history.json: absent, unreadable as a list of results, or
\* the list save_history wrote
NoFile  == [exists |-> FALSE, parses |-> FALSE, data |-> <<>>]

Corrupt == [exists |-> TRUE, parses |-> FALSE, data |-> <<>>]

\* models.py:7-27 and 47: the keys a stored result must have, the fields
\* without a default and the timestamp load_history reads with item['timestamp']
RequiredKeys ==
    {"product_id", "product_name", "product_link", "old_description",
     "new_description", "meta_description", "keywords", "status", "timestamp"}

\* models.py:59-61: result.dict() with the timestamp as text. A stored result
\* also tells which keys of the model it lacks and which unknown keys it has:
\* none for a result this code wrote
to_dict(result) ==
    [product_id |-> result.product_id, status |-> result.status,
     timestamp |-> isoformat(result.timestamp),
     product_link |-> result.product_link, absent |-> {}, extra |-> {}]

\* models.py:45-49: OptimizationResult(**item) with the timestamp parsed;
\* a key the model does not declare is ignored
from_dict(item) ==
    [product_id |-> item.product_id, status |-> item.status,
     timestamp |-> fromisoformat(item.timestamp),
     product_link |-> item.product_link]

\* models.py: save_history, the whole list is rewritten, every result as its
\* dict with the timestamp as text
save_history_without_last(results) ==
    [exists |-> TRUE, parses |-> TRUE,
     data |-> [i \in 1..(Len(results) - 1) |-> to_dict(results[i])]]

save_history(results) ==
    [exists |-> TRUE, parses |-> TRUE,
     data |-> [i \in DOMAIN results |-> to_dict(results[i])]]

\* models.py:38-54: load_history on an instance holding results; a missing
\* file leaves them; a file that fails to parse, or one of whose results
\* fails the validation of the model, empties them
load_history_no_except(results, f) ==
    IF ~f.exists THEN [results |-> results, raised |-> FALSE]
    ELSE IF ~f.parses THEN [results |-> results, raised |-> TRUE]
    ELSE IF \E i \in DOMAIN f.data : f.data[i].absent \cap RequiredKeys # {}
    THEN [results |-> results, raised |-> TRUE]
    ELSE [results |-> [i \in DOMAIN f.data |-> from_dict(f.data[i])],
          raised |-> FALSE]

load_history(results, f) ==
    IF ~f.exists THEN [results |-> results, raised |-> FALSE]
    ELSE IF ~f.parses THEN [results |-> <<>>, raised |-> FALSE]
    ELSE IF \E i \in DOMAIN f.data : f.data[i].absent \cap RequiredKeys # {}
    THEN [results |-> <<>>, raised |-> FALSE]
    ELSE [results |-> [i \in DOMAIN f.data |-> from_dict(f.data[i])],
          raised |-> FALSE]

\* models.py:33-36: OptimizationHistory(), an empty list, then load_history
OptimizationHistory(f) == load_history(<<>>, f)

\* models.py:70-73: add_result, the in-memory append
add_result_upsert(results, r) ==
    Append(SelectSeq(results, LAMBDA e : e.product_id # r.product_id), r)

add_result(results, r) == Append(results, r)

\* models.py:83-87: clear_history
clear_history_keep_file(f) == [results |-> <<>>, file |-> f]

clear_history(f) == [results |-> <<>>, file |-> NoFile]

\* worker.py:720-733: migrate_history_entries, the loop over the results. The
\* name wp_api is not bound in worker.py, so the lookup at line 728 raises
\* and the bare except builds the basic URL.
migrate_every_entry(results) ==
    [i \in DOMAIN results |-> [results[i] EXCEPT !.product_link = "basic"]]

migrate_history_entries(results) ==
    [i \in DOMAIN results |->
        IF results[i].product_link = ""
        THEN [results[i] EXCEPT !.product_link = "basic"]
        ELSE results[i]]

\* worker.py:530: the timestamp of a result is datetime.now() at the moment
\* it is built (the default of models.py:27 is evaluated once, at import)
result_timestamp_default(now) == 0

result_timestamp(now) == now

\* ------------------------------------------------------------ the catalog

\* wp_api.py: the methods class WordPressAPI defines
WordPressAPI == {"get_products", "update_product", "get_product"}

\* last-modified age (days) of a product nobody has written to yet
InitialAge(p) == IF p % 2 = 1 THEN 5 ELSE 45

\* wp_api.py: get_products, the pages the catalog can answer with when it
\* has n more items to serve; the empty page signals exhaustion
Pages(n) == UNION {[1..k -> Products] : k \in 0..n}

\* a page of per_page items, all of one product
FullPages == {[i \in 1..per_page |-> p] : p \in Products}

\* the pages the catalog can answer a new page number with, after it has
\* served n items to the run: a full page first of all, then one more item, or
\* short pages of MaxItems items in all
Answers(n) ==
    IF n = 0 THEN Pages(MaxItems) \cup FullPages
    ELSE IF n >= per_page THEN Pages(per_page + 1 - n)
    ELSE Pages(MaxItems - n)

\* start pages a caller asks for: what the catalog serves does not depend on
\* the page number, so the default start page stands for every start page
StartPages == {1}

\* worker.py: is_recently_optimized (never called by process_optimization)
is_recently_optimized(age) ==
    IF age = NoDate THEN FALSE ELSE age < RECENT_DAYS

\* ------------------------------------------------- process_optimization

\* worker.py:306
PRODUCT_LIMIT_off_by_one(mp) == IF mp = None \/ mp = 0 THEN DEFAULT_LIMIT ELSE mp + 1

PRODUCT_LIMIT_default_plus_one(mp) == IF mp = None \/ mp = 0 THEN DEFAULT_LIMIT + 1 ELSE mp

PRODUCT_LIMIT(mp) == IF mp = None \/ mp = 0 THEN DEFAULT_LIMIT ELSE mp

\* worker.py:502-507
status_of_always_success(dry) == "success"

status_of(dry) == IF ~dry THEN "success" ELSE "preview"

\* worker.py:537-539, the per-item handler: continue with the next item
after_item_exception_reraise(i) == [pc |-> "return", idx |-> i, exit |-> "fetch_error"]

after_item_exception(i) == [pc |-> "item", idx |-> i + 1, exit |-> "none"]

\* worker.py:548-550, the per-page handler: break
after_page_exception_retry == [pc |-> "fetch", exit |-> "none"]

after_page_exception == [pc |-> "return", exit |-> "fetch_error"]

\* worker.py:545
next_page_same(p) == p

next_page(p) == p + 1

Limit == PRODUCT_LIMIT(max_products)

\* worker.py:357-362: update_product with the initial payload. In a catalog
\* record, name stands for the name and the slug, content for the
\* description, the meta description and the focus keyword.
initial_update(rec) == [rec EXCEPT !.name = "new", !.age = 0]

\* worker.py:449-504: update_product with the full payload (the payload of
\* lines 347-354 had an empty description)
update_data_without_content(rec) == [rec EXCEPT !.name = "new", !.age = 0]

update_data(rec) == [rec EXCEPT !.name = "new", !.content = "new", !.age = 0]

\* histories an earlier process can leave in optimization_history.json:
\* results of runs, stamped in the order they were appended
Histories ==
    UNION {{[i \in 1..n |-> OptimizationResult(ids[i], sts[i], i)] :
              ids \in [1..n -> Products], sts \in [1..n -> {"success", "preview"}]} :
           n \in 0..MaxHistory}

\* the catalog record of product p after the runs that left history h
CatalogAfter(h, p) ==
    IF \E i \in DOMAIN h : h[i].product_id = p /\ h[i].status = "success"
    THEN [name |-> "new", content |-> "new", age |-> 0]
    ELSE [name |-> "orig", content |-> "orig", age |-> InitialAge(p)]

Init ==
    /\ file \in {save_history(h) : h \in Histories}
    /\ ledger = OptimizationHistory(file).results
    /\ catalog = [p \in Products |-> CatalogAfter(ledger, p)]
    /\ clock = Len(ledger) + 1
    /\ pc = "idle"
    /\ page = 1
    /\ products = <<>>
    /\ idx = 1
    /\ products_processed = 0
    /\ max_products = None
    /\ force_update = FALSE
    /\ dry_run = TRUE
    /\ processed_ids = {}
    /\ startLen = 0
    /\ genCalls = {}
    /\ updateCalls = {}
    /\ served = 0
    /\ fetched = 0
    /\ outcome = "none"
    /\ exit = "none"
    /\ returned = <<>>
    /\ response = "none"
    /\ call = NoCall

\* a run handed to the request's background tasks: it starts whatever the
\* pipeline is doing
may_start_in_background(p) == TRUE

\* main.py:36-63: the request's coroutine calls process_optimization itself
\* (background_tasks is never used) and nothing else runs until it returns;
\* worker.py has no thread and no task: a run starts when none is in progress
may_start(p) == p = "idle"

\* worker.py:300-310, the call and the set-up before the paging loop
StartRun ==
    /\ may_start(pc)
    /\ clock <= MaxHistory + 1        \* bound: runs start while few results were ever appended
    /\ \E mp \in {None} \cup (0..MaxCap), sp \in StartPages,
          fu \in BOOLEAN, dr \in BOOLEAN :
        /\ max_products' = mp
        /\ page' = sp
        /\ force_update' = fu
        /\ dry_run' = dr
        /\ processed_ids' = IF fu THEN {} ELSE get_processed_ids(ledger)
    /\ products_processed' = 0
    /\ products' = <<>>
    /\ idx' = 1
    /\ startLen' = Len(ledger)
    /\ genCalls' = {}
    /\ updateCalls' = {}
    /\ served' = 0
    /\ fetched' = 0
    /\ outcome' = "none"
    /\ exit' = "none"
    /\ response' = "none"
    /\ pc' = "fetch"
    /\ returned' = <<>>               \* the value of the previous call is gone
    /\ UNCHANGED <<ledger, file, catalog, clock>>
    /\ UNCHANGED call

\* worker.py:312-318 and 548-550: the while test, get_products, the empty page
FetchPage ==
    /\ pc = "fetch"
    /\ IF ~(products_processed < Limit)
       THEN /\ pc' = "return"
            /\ exit' = "cap"
            /\ outcome' = "ok"
            /\ UNCHANGED <<products, idx, served, fetched>>
       ELSE \/ \* get_products raises
               /\ pc' = after_page_exception.pc
               /\ exit' = after_page_exception.exit
               /\ outcome' = "page_error"
               /\ UNCHANGED <<products, idx, served, fetched>>
            \/ \* the catalog answers: a page asked for again has the same
               \* items, a new page has any of the items left to serve
               \E p \in IF page = fetched THEN {products}
                                          ELSE Answers(served) :
               /\ IF p = <<>>
                  THEN /\ pc' = "return"
                       /\ exit' = "exhausted"
                       /\ UNCHANGED <<products, idx, fetched>>
                  ELSE /\ pc' = "item"
                       /\ exit' = "none"
                       /\ products' = p
                       /\ idx' = 1
                       /\ fetched' = page
               /\ served' = IF page = fetched THEN served ELSE served + Len(p)
               /\ outcome' = "ok"
    /\ UNCHANGED <<ledger, file, catalog, clock, page, products_processed,
                   max_products, force_update, dry_run, processed_ids,
                   startLen, genCalls, updateCalls, returned, response>>
    /\ UNCHANGED call

\* worker.py:320-330: the for loop head, the cap test and the skip decision
DecideItem ==
    /\ pc = "item"
    /\ idx <= Len(products)
    /\ IF products_processed >= Limit
       THEN \* break, then the break of line 541-543
            /\ pc' = "return"
            /\ exit' = "cap"
            /\ outcome' = "ok"
            /\ idx' = idx
       ELSE IF products[idx] \in processed_ids /\ ~force_update
       THEN /\ pc' = "item"
            /\ idx' = idx + 1
            /\ outcome' = "skipped"
            /\ exit' = "none"
       ELSE /\ pc' = "gen_title"
            /\ idx' = idx
            /\ outcome' = "ok"
            /\ exit' = "none"
    /\ UNCHANGED <<ledger, file, catalog, clock, page, products,
                   products_processed, max_products, force_update, dry_run,
                   processed_ids, startLen, genCalls, updateCalls,
                   returned, response,
                   served, fetched>>
    /\ UNCHANGED call

\* worker.py:541-546: after the for loop
EndPage ==
    /\ pc = "item"
    /\ idx > Len(products)
    /\ IF products_processed >= Limit
       THEN /\ pc' = "return"
            /\ exit' = "cap"
            /\ page' = page
       ELSE /\ pc' = "fetch"
            /\ exit' = "none"
            /\ page' = next_page(page)
    /\ outcome' = "ok"
    /\ UNCHANGED <<ledger, file, catalog, clock, products, idx,
                   products_processed, max_products, force_update, dry_run,
                   processed_ids, startLen, genCalls, updateCalls,
                   returned, response,
                   served, fetched>>
    /\ UNCHANGED call

\* items of this run the for loop has passed
Passed == served - Len(products) + idx - 1

\* the per-item handler of worker.py:537-539
ItemException ==
    /\ Passed < MaxItems              \* bound: the first items of a run can fail
    /\ pc' = after_item_exception(idx).pc
    /\ idx' = after_item_exception(idx).idx
    /\ exit' = after_item_exception(idx).exit
    /\ outcome' = "item_error"

\* worker.py:336-344: generate_seo_title_and_slug
GenerateTitle ==
    /\ pc = "gen_title"
    /\ genCalls' = genCalls \cup {products[idx]}
    /\ \/ ItemException
       \/ /\ pc' = IF ~dry_run THEN "initial_update" ELSE "gen_content"
          /\ outcome' = "ok"
          /\ UNCHANGED <<idx, exit>>
    /\ UNCHANGED <<ledger, file, catalog, clock, page, products,
                   products_processed, max_products, force_update, dry_run,
                   processed_ids, startLen, updateCalls, returned,
                   response,
                   served, fetched>>
    /\ UNCHANGED call

\* worker.py:356-366: the immediate title/slug update
InitialUpdate ==
    /\ pc = "initial_update"
    /\ updateCalls' = updateCalls \cup {products[idx]}
    /\ \/ /\ ItemException
          /\ UNCHANGED catalog
       \/ /\ catalog' = [catalog EXCEPT ![products[idx]] = initial_update(@)]
          /\ pc' = "gen_content"
          /\ outcome' = "ok"
          /\ UNCHANGED <<idx, exit>>
    /\ UNCHANGED <<ledger, file, clock, page, products, products_processed,
                   max_products, force_update, dry_run, processed_ids,
                   startLen, genCalls, returned, response,
                   served, fetched>>
    /\ UNCHANGED call

\* worker.py:368-463: generate_meta_from_title, generate_seo_content,
\* generate_gallery_alt_tags and the update payload
GenerateContent ==
    /\ pc = "gen_content"
    /\ genCalls' = genCalls \cup {products[idx]}
    /\ \/ ItemException
       \/ /\ pc' = IF ~dry_run THEN "full_update" ELSE "record"
          /\ outcome' = "ok"
          /\ UNCHANGED <<idx, exit>>
    /\ UNCHANGED <<ledger, file, catalog, clock, page, products,
                   products_processed, max_products, force_update, dry_run,
                   processed_ids, startLen, updateCalls, returned,
                   response,
                   served, fetched>>
    /\ UNCHANGED call

\* worker.py:465-505: the full update
FullUpdate ==
    /\ pc = "full_update"
    /\ updateCalls' = updateCalls \cup {products[idx]}
    /\ \/ /\ ItemException
          /\ UNCHANGED catalog
       \/ /\ catalog' = [catalog EXCEPT ![products[idx]] = update_data(@)]
          /\ pc' = "record"
          /\ outcome' = "ok"
          /\ UNCHANGED <<idx, exit>>
    /\ UNCHANGED <<ledger, file, clock, page, products, products_processed,
                   max_products, force_update, dry_run, processed_ids,
                   startLen, genCalls, returned, response,
                   served, fetched>>
    /\ UNCHANGED call

\* worker.py:502-535 and models.py:70-73: the result, add_result, the counter
RecordResult ==
    /\ pc = "record"
    /\ LET result == OptimizationResult(products[idx], status_of(dry_run),
                                        result_timestamp(clock))
       IN  /\ ledger' = add_result(ledger, result)
           /\ file' = save_history(ledger')
    /\ clock' = clock + 1
    /\ products_processed' = products_processed + 1
    /\ idx' = idx + 1
    /\ pc' = "item"
    /\ outcome' = "recorded"
    /\ UNCHANGED <<catalog, page, products, max_products, force_update,
                   dry_run, processed_ids, startLen, genCalls, updateCalls,
                   exit, returned, response,
                   served, fetched>>
    /\ UNCHANGED call

\* worker.py:552-554: return optimization_history.get_results()
Return ==
    /\ pc = "return"
    /\ returned' = get_results(ledger)
    /\ pc' = "idle"
    /\ page' = 1
    /\ products' = <<>>
    /\ idx' = 1
    /\ products_processed' = 0
    /\ max_products' = None
    /\ force_update' = FALSE
    /\ dry_run' = TRUE
    /\ processed_ids' = {}
    /\ startLen' = 0
    /\ genCalls' = {}
    /\ updateCalls' = {}
    /\ served' = 0
    /\ fetched' = 0
    /\ outcome' = "none"
    /\ UNCHANGED <<ledger, file, catalog, clock, exit, response>>
    /\ UNCHANGED call

\* main.py:35-85: the optimize-content request. wp_api.get_total_products()
\* is called first; WordPressAPI defines no such method, the AttributeError
\* is caught at line 83 and answered with HTTPException(500).
OptimizeContent ==
    /\ pc = "idle"
    /\ response' = IF "get_total_products" \in WordPressAPI THEN "200" ELSE "500"
    /\ UNCHANGED <<ledger, file, catalog, clock, pc, page, products, idx,
                   products_processed, max_products, force_update, dry_run,
                   processed_ids, startLen, genCalls, updateCalls,
                   outcome, exit, returned,
                   served, fetched>>
    /\ UNCHANGED call

\* models.py:83-87: clear_history on the pipeline's ledger
ClearHistory ==
    /\ pc = "idle"
    /\ ledger' = clear_history(file).results
    /\ file' = clear_history(file).file
    /\ outcome' = "cleared"
    /\ exit' = "none"
    /\ returned' = <<>>
    /\ UNCHANGED <<catalog, clock, pc, page, products, idx,
                   products_processed, max_products, force_update, dry_run,
                   processed_ids, startLen, genCalls, updateCalls, served,
                   fetched, response>>
    /\ UNCHANGED call

\* worker.py:31 in a new process: the ledger is built again from the file
Restart ==
    /\ pc = "idle"
    /\ ledger' = OptimizationHistory(file).results
    /\ outcome' = IF OptimizationHistory(file).raised THEN "load_error" ELSE "loaded"
    /\ exit' = "none"
    /\ returned' = <<>>
    /\ response' = "none"
    /\ UNCHANGED <<file, catalog, clock, pc, page, products, idx,
                   products_processed, max_products, force_update, dry_run,
                   processed_ids, startLen, genCalls, updateCalls, served,
                   fetched>>
    /\ UNCHANGED call

\* worker.py:720-736: migrate_history_entries and its save_history
MigrateHistory ==
    /\ pc = "idle"
    /\ ledger' = migrate_history_entries(ledger)
    /\ file' = save_history(ledger')
    /\ outcome' = "migrated"
    /\ exit' = "none"
    /\ UNCHANGED <<catalog, clock, pc, page, products, idx,
                   products_processed, max_products, force_update, dry_run,
                   processed_ids, startLen, genCalls, updateCalls, served,
                   fetched, returned, response>>
    /\ UNCHANGED call

RunStep ==
    \/ FetchPage
    \/ DecideItem
    \/ EndPage
    \/ GenerateTitle
    \/ InitialUpdate
    \/ GenerateContent
    \/ FullUpdate
    \/ RecordResult
    \/ Return

Next ==
    \/ StartRun
    \/ RunStep
    \/ OptimizeContent

Spec == Init /\ [][Next]_vars

\* the interpreter runs a started call on until it returns: every step of a
\* run is eventually taken
FairSpec == Spec /\ WF_vars(RunStep)

\* the pipeline together with the operations on its ledger that lie outside
\* a run: clearing it, a new process loading it, the migration script
HistoryNext ==
    \/ StartRun
    \/ RunStep
    \/ OptimizeContent
    \/ ClearHistory
    \/ Restart
    \/ MigrateHistory

HistorySpec == Init /\ [][HistoryNext]_vars

\* ------------------------------------------- the ledger class on its own

\* results a caller of add_result can hand over: any product, status and
\* timestamp, in any order
Times == 1..MaxTime

Results ==
    {OptimizationResult(id, st, ts) :
        id \in Products, st \in {"success", "preview"}, ts \in Times}

\* the files a new installation can find at start: none, one that does not
\* parse, or an empty list
Files == {NoFile, Corrupt, save_history(<<>>)}

\* models.py:33-36 with any file in place; the pipeline is idle throughout
LedgerInit ==
    /\ file \in Files
    /\ ledger = OptimizationHistory(file).results
    /\ outcome = IF OptimizationHistory(file).raised THEN "load_error" ELSE "loaded"
    /\ catalog = [p \in Products |-> CatalogAfter(<<>>, p)]
    /\ clock = 1
    /\ pc = "idle"
    /\ page = 1
    /\ products = <<>>
    /\ idx = 1
    /\ products_processed = 0
    /\ max_products = None
    /\ force_update = FALSE
    /\ dry_run = TRUE
    /\ processed_ids = {}
    /\ startLen = 0
    /\ genCalls = {}
    /\ updateCalls = {}
    /\ served = 0
    /\ fetched = 0
    /\ exit = "none"
    /\ returned = <<>>
    /\ response = "none"
    /\ call = NoCall

\* models.py:70-73: add_result with any result
AddResult ==
    /\ pc = "idle"
    /\ Len(ledger) < MaxLedger
    /\ \E r \in Results : ledger' = add_result(ledger, r)
    /\ file' = save_history(ledger')
    /\ outcome' = "added"
    /\ returned' = <<>>
    /\ UNCHANGED <<catalog, clock, pc, page, products, idx,
                   products_processed, max_products, force_update, dry_run,
                   processed_ids, startLen, genCalls, updateCalls, served,
                   fetched, exit, response>>
    /\ UNCHANGED call

\* models.py:75-77: get_results, as main.py:31, 66 and 90 call it
GetResults ==
    /\ pc = "idle"
    /\ returned' = get_results(ledger)
    /\ outcome' = "read"
    /\ UNCHANGED <<ledger, file, catalog, clock, pc, page, products, idx,
                   products_processed, max_products, force_update, dry_run,
                   processed_ids, startLen, genCalls, updateCalls, served,
                   fetched, exit, response>>
    /\ UNCHANGED call

LedgerNext ==
    \/ AddResult
    \/ GetResults
    \/ Restart
    \/ ClearHistory

LedgerSpec == LedgerInit /\ [][LedgerNext]_vars

\* --------------------------------- the title and slug of one item

\* a line of the model's response: the text it starts with, as the loop of
\* worker.py:647-653 tests it with startswith, and what is left of the line
\* after replace(...).strip()
ResponseLines ==
    [key : {"New Title:", "Slug:", "Reason:", "other"}, text : {"a", ""}]

Responses == UNION {[1..n -> ResponseLines] : n \in 0..MaxLines}

\* the text of the last line of content that starts with key, "" if none
LastText(content, key) ==
    LET at == {i \in DOMAIN content : content[i].key = key}
    IN  IF at = {} THEN ""
        ELSE content[CHOOSE i \in at : \A j \in at : j <= i].text

\* worker.py:641-659: the three values start as "" and every matching line
\* overwrites its value
generate_seo_title_and_slug(content) ==
    [title  |-> LastText(content, "New Title:"),
     slug   |-> LastText(content, "Slug:"),
     reason |-> LastText(content, "Reason:")]

\* worker.py:358-361: the payload of the immediate update
initial_update_payload(title_data) ==
    [name |-> title_data.title, slug |-> title_data.slug]

\* worker.py:510-516: the title and slug fields of the result; the current
\* title and slug are those of the fetched product
title_fields(title_data) ==
    [product_name     |-> "orig",
     new_product_name |-> title_data.title,
     old_slug         |-> "orig",
     new_slug         |-> title_data.slug]

TitleInit ==
    /\ file = save_history(<<>>)
    /\ ledger = OptimizationHistory(file).results
    /\ catalog = [p \in Products |-> CatalogAfter(ledger, p)]
    /\ clock = 1
    /\ pc = "idle"
    /\ page = 1
    /\ products = <<>>
    /\ idx = 1
    /\ products_processed = 0
    /\ max_products = None
    /\ force_update = FALSE
    /\ dry_run = TRUE
    /\ processed_ids = {}
    /\ startLen = 0
    /\ genCalls = {}
    /\ updateCalls = {}
    /\ served = 0
    /\ fetched = 0
    /\ outcome = "none"
    /\ exit = "none"
    /\ returned = <<>>
    /\ response = "none"
    /\ call = NoCall

\* worker.py:336-339: generate_seo_title_and_slug for one product, the
\* response of the language model being any text
CallGenerateTitle ==
    /\ call.op = "none"
    /\ \E p \in Products, content \in Responses, dr \in BOOLEAN :
        /\ call' = [op |-> "generate_seo_title_and_slug",
                    product |-> p,
                    content |-> content,
                    title_data |-> generate_seo_title_and_slug(content),
                    payload |-> initial_update_payload(generate_seo_title_and_slug(content)),
                    result |-> title_fields(generate_seo_title_and_slug(content))]
        /\ dry_run' = dr
    /\ UNCHANGED <<ledger, file, catalog, clock, pc, page, products, idx,
                   products_processed, max_products, force_update,
                   processed_ids, startLen, genCalls, updateCalls, served,
                   fetched, outcome, exit, returned, response>>

\* worker.py:356-362: update_product with the initial payload, the catalog
\* taking the name it is sent
SendInitialUpdate ==
    /\ call.op = "generate_seo_title_and_slug"
    /\ ~dry_run
    /\ call' = [call EXCEPT !.op = "update_product"]
    /\ catalog' = [catalog EXCEPT ![call.product].name = call.payload.name,
                                  ![call.product].age = 0]
    /\ UNCHANGED <<ledger, file, clock, pc, page, products, idx,
                   products_processed, max_products, force_update, dry_run,
                   processed_ids, startLen, genCalls, updateCalls, served,
                   fetched, outcome, exit, returned, response>>

\* worker.py:510-531: the result is built
BuildResult ==
    /\ call.op = IF ~dry_run THEN "update_product" ELSE "generate_seo_title_and_slug"
    /\ call' = [call EXCEPT !.op = "OptimizationResult"]
    /\ UNCHANGED <<ledger, file, catalog, clock, pc, page, products, idx,
                   products_processed, max_products, force_update, dry_run,
                   processed_ids, startLen, genCalls, updateCalls, served,
                   fetched, outcome, exit, returned, response>>

TitleNext ==
    \/ CallGenerateTitle
    \/ SendInitialUpdate
    \/ BuildResult

TitleSpec == TitleInit /\ [][TitleNext]_vars

\* ------------------------------------------------------------ image texts
\* worker.py:237-298 and 382-493: the alt and title texts of one item's images

MaxImages == 3        \* product images of one item
MaxGallery == 1       \* gallery images of one item
MaxVariations == 2    \* variations of one item
MaxAttrs == 2         \* attributes of one variation

Titles == {"Blue Hoodie"}

\* the attributes a variation can carry (worker.py:246-256)
Attributes ==
    { [name |-> "Color", option |-> "Blue"],
      [name |-> "pa_size", option |-> "M"],
      [name |-> "Material", option |-> "Wool"] }

\* worker.py:249-253: word in attr.get('name', '').lower()
lower_has(name, word) ==
    IF word = "color" THEN name \in {"Color"}
    ELSE IF word = "size" THEN name \in {"pa_size"}
    ELSE FALSE

\* the attribute lists of a variation: an attribute name occurs once
AttributeLists ==
    {a \in UNION {[1..n -> Attributes] : n \in 0..MaxAttrs} :
        \A i, j \in DOMAIN a : i # j => a[i].name # a[j].name}

\* product['variations']: each element is a dict with attributes or not a dict
VariationValues ==
    {[is_dict |-> FALSE, attributes |-> <<>>]}
        \cup {[is_dict |-> TRUE, attributes |-> a] : a \in AttributeLists}

VariationLists == UNION {[1..n -> VariationValues] : n \in 0..MaxVariations}

\* a text: the title, then " - " or " ", then words, then a number (0: none)
Text(title, dash, words, ordinal) ==
    [title |-> title, dash |-> dash, words |-> words, ordinal |-> ordinal]

OldText == Text("old", FALSE, <<>>, 0)

\* an image of the catalog item with its current texts (worker.py:393-403)
Image(i) == [id |-> i, alt |-> OldText, title |-> OldText]

\* worker.py:273: variants.get(..., {}) and the .get('color') of an empty dict
NoVariant == [color |-> "", size |-> ""]

\* worker.py:246-256: the loop over the attributes of one variation
RECURSIVE scan_attributes(_, _)
scan_attributes(attributes, info) ==
    IF attributes = <<>> THEN info
    ELSE LET attr == Head(attributes)
         IN scan_attributes(Tail(attributes),
                IF lower_has(attr.name, "color")
                THEN [info EXCEPT !.color = attr.option]
                ELSE IF lower_has(attr.name, "size")
                     THEN [info EXCEPT !.size = attr.option]
                     ELSE info)

\* worker.py:237-260: keyed by the position of the variation, counted from 1
get_variant_info(variations) ==
    [pos \in {i \in DOMAIN variations : variations[i].is_dict} |->
        scan_attributes(variations[pos].attributes, NoVariant)]

\* the lookup takes the variant of the image's own position
generate_gallery_alt_tags_raw_position(title, images, variants) ==
    [pos \in DOMAIN images |->
        IF pos = 1
        THEN [alt |-> Text(title, FALSE, <<>>, 0),
              title |-> Text(title, TRUE, <<"Main Product Image">>, 0)]
        ELSE LET variant_info == IF pos \in DOMAIN variants
                                 THEN variants[pos] ELSE NoVariant
                 with_color == IF variant_info.color # ""
                               THEN <<variant_info.color>> ELSE <<>>
                 variant_text == IF variant_info.size # ""
                                 THEN Append(with_color, variant_info.size)
                                 ELSE with_color
             IN IF variant_text # <<>>
                THEN [alt |-> Text(title, FALSE, variant_text, 0),
                      title |-> Text(title, TRUE, variant_text, 0)]
                ELSE [alt |-> Text(title, FALSE, <<>>, 0),
                      title |-> Text(title, TRUE, <<"Gallery Image">>, pos)]]

\* worker.py:262-298
generate_gallery_alt_tags(title, images, variants) ==
    [pos \in DOMAIN images |->
        IF pos = 1
        THEN [alt |-> Text(title, FALSE, <<>>, 0),
              title |-> Text(title, TRUE, <<"Main Product Image">>, 0)]
        ELSE LET variant_info == IF (pos - 1) \in DOMAIN variants
                                 THEN variants[pos - 1] ELSE NoVariant
                 with_color == IF variant_info.color # ""
                               THEN <<variant_info.color>> ELSE <<>>
                 variant_text == IF variant_info.size # ""
                                 THEN Append(with_color, variant_info.size)
                                 ELSE with_color
             IN IF variant_text # <<>>
                THEN [alt |-> Text(title, FALSE, variant_text, 0),
                      title |-> Text(title, TRUE, variant_text, 0)]
                ELSE [alt |-> Text(title, FALSE, <<>>, 0),
                      title |-> Text(title, TRUE, <<"Gallery Image">>, pos)]]

\* worker.py:467-476 and 482-490: an image takes the text generated for its
\* overall position when there is one, and keeps its own otherwise
apply_image_text(img, pos, new_image_texts) ==
    IF pos \in DOMAIN new_image_texts
    THEN [img EXCEPT !.alt = new_image_texts[pos].alt,
                     !.title = new_image_texts[pos].title]
    ELSE img

\* worker.py:405-421: the current texts of the product images and then of the
\* gallery images, keyed by the overall ordinal; field is "alt" or "title"
old_image_texts(product_images, gallery_images, field) ==
    [k \in 1..(Len(product_images) + Len(gallery_images)) |->
        IF k <= Len(product_images)
        THEN product_images[k][field]
        ELSE gallery_images[k - Len(product_images)][field]]

\* worker.py:440-446: the new mapping has one key per generated text
new_image_field(new_image_texts, field) ==
    [k \in DOMAIN new_image_texts |-> new_image_texts[k][field]]

ImageInit ==
    /\ file = save_history(<<>>)
    /\ ledger = OptimizationHistory(file).results
    /\ catalog = [p \in Products |-> CatalogAfter(ledger, p)]
    /\ clock = 1
    /\ pc = "idle"
    /\ page = 1
    /\ products = <<>>
    /\ idx = 1
    /\ products_processed = 0
    /\ max_products = None
    /\ force_update = FALSE
    /\ dry_run = TRUE
    /\ processed_ids = {}
    /\ startLen = 0
    /\ genCalls = {}
    /\ updateCalls = {}
    /\ served = 0
    /\ fetched = 0
    /\ outcome = "none"
    /\ exit = "none"
    /\ returned = <<>>
    /\ response = "none"
    /\ call = NoCall

\* worker.py:382-437: the variants and the images of the item are read and
\* the texts are generated from the product images
CallGenerateAltTags ==
    /\ call.op = "none"
    /\ \E title \in Titles, variations \in VariationLists,
          m \in 0..MaxImages, g \in 0..MaxGallery, dr \in BOOLEAN :
        LET variants == get_variant_info(variations)
            product_images == [i \in 1..m |-> Image(i)]
            gallery_images == [i \in 1..g |-> Image(m + i)]
        IN /\ call' = [op |-> "generate_gallery_alt_tags",
                       title |-> title,
                       variations |-> variations,
                       variants |-> variants,
                       product_images |-> product_images,
                       gallery_images |-> gallery_images,
                       old_image_alts |->
                           old_image_texts(product_images, gallery_images, "alt"),
                       old_image_titles |->
                           old_image_texts(product_images, gallery_images, "title"),
                       new_image_texts |->
                           generate_gallery_alt_tags(title, product_images, variants),
                       new_image_alts |->
                           new_image_field(
                               generate_gallery_alt_tags(title, product_images, variants),
                               "alt"),
                       new_image_titles |->
                           new_image_field(
                               generate_gallery_alt_tags(title, product_images, variants),
                               "title"),
                       updated_product_images |-> <<>>,
                       updated_gallery_images |-> <<>>]
           /\ dry_run' = dr
    /\ UNCHANGED <<ledger, file, catalog, clock, pc, page, products, idx,
                   products_processed, max_products, force_update,
                   processed_ids, startLen, genCalls, updateCalls, served,
                   fetched, outcome, exit, returned, response>>

\* worker.py:465-493: the texts are put on the images of the update
ApplyImageTexts ==
    /\ call.op = "generate_gallery_alt_tags"
    /\ ~dry_run
    /\ LET start_idx == Len(call.product_images) + 1
       IN call' = [call EXCEPT
            !.op = "update_images",
            !.updated_product_images =
                [i \in DOMAIN call.product_images |->
                    apply_image_text(call.product_images[i], i, call.new_image_texts)],
            !.updated_gallery_images =
                [n \in DOMAIN call.gallery_images |->
                    apply_image_text(call.gallery_images[n], start_idx + n - 1,
                                     call.new_image_texts)]]
    /\ UNCHANGED <<ledger, file, catalog, clock, pc, page, products, idx,
                   products_processed, max_products, force_update, dry_run,
                   processed_ids, startLen, genCalls, updateCalls, served,
                   fetched, outcome, exit, returned, response>>

ImageNext ==
    \/ CallGenerateAltTags
    \/ ApplyImageTexts

ImageSpec == ImageInit /\ [][ImageNext]_vars

\* ------------------------------------------------------------ keyword provider
\* keyword_research.py: the suggestions of one item and the cache of trends

MaxTitleLen == 4      \* tokens of a title
MaxRows == 2          \* rows the trend service answers

CACHE_DAYS == 7       \* keyword_research.py:89
TOP == 10             \* keyword_research.py:195
Today == CACHE_DAYS + 1

NoCategory == ""

Categories == {NoCategory, "Gear", "shoes"}

\* the tokens titles are made of, in the order they can occur in a title
WordList == <<"Red", "running", "the", "Shoes", "for", "trail-run", "red">>

\* the titles: up to MaxTitleLen tokens of the list, in its order
TokenLists ==
    {t \in UNION {[1..n -> DOMAIN WordList] : n \in 0..MaxTitleLen} :
        \A i \in DOMAIN t : i > 1 => t[i - 1] < t[i]}

KeywordTitles == {[i \in DOMAIN t |-> WordList[t[i]]] : t \in TokenLists}

\* str.lower (keyword_research.py:172, 188)
lower(w) ==
    IF w = "Red" THEN "red"
    ELSE IF w = "Shoes" THEN "shoes"
    ELSE IF w = "Gear" THEN "gear"
    ELSE IF w = "True" THEN "true"
    ELSE w

\* .replace('-', ' ').split() of one token (keyword_research.py:172)
split_token(w) ==
    IF w = "trail-run" THEN <<"trail", "run">> ELSE <<w>>

\* keyword_research.py:175
stop_words == {"and", "or", "the", "a", "an", "in", "on", "at", "for", "to", "of", "with"}

\* keyword_research.py:172-176: the words of the title without the stop words
RECURSIVE clean_title_words(_)
clean_title_words(title) ==
    IF title = <<>> THEN <<>>
    ELSE SelectSeq(split_token(lower(Head(title))), LAMBDA w : w \notin stop_words)
            \o clean_title_words(Tail(title))

\* keyword_research.py:169-192: the phrases (each the sequence of its words)
\* collected from the title and the category, as the set of line 192
basic_keywords(title, category) ==
    LET title_words == clean_title_words(title)
    IN {<<title_words[i]>> : i \in DOMAIN title_words}
        \cup {<<title_words[i], title_words[i + 1]>> : i \in 1..(Len(title_words) - 1)}
        \cup (IF category # NoCategory THEN {<<lower(category)>>} ELSE {})
        \cup (IF category # NoCategory /\ title_words # <<>>
              THEN {<<lower(category), title_words[Len(title_words)]>>} ELSE {})

\* a list of python, of dicts (a sequence) or of strings (here their set)
Dicts(l) == [dicts |-> l, strs |-> {}]
Strs(s) == [dicts |-> <<>>, strs |-> s]

\* keyword_research.py:192-195: list(set(keywords))[:10]. The order of a set
\* of strings follows the hash seed of the process, so the ten phrases kept
\* of a larger set are any ten of them: the outcomes a process can produce
first_ten(keywords) ==
    IF Cardinality(keywords) <= TOP THEN {keywords}
    ELSE {r \in SUBSET keywords : Cardinality(r) = TOP}

\* keyword_research.py:167-195: the outcomes a call can have
_extract_basic_keywords(title, category) ==
    {[raised |-> FALSE, value |-> Strs(r)] :
        r \in first_ten(basic_keywords(title, category))}

\* keyword_research.py:197-209: the lookup get_keyword_suggestions calls.
\* Its try block is empty: the function returns [] or falls off its end
_get_trending_keywords(use_trends) ==
    IF lower(use_trends) # "true"
    THEN [raised |-> FALSE, none |-> FALSE, value |-> Dicts(<<>>)]
    ELSE [raised |-> FALSE, none |-> TRUE, value |-> Dicts(<<>>)]

\* keyword_research.py:153-165: the outcomes a call can have. An exception of
\* the lookup is caught (line 160); the extraction of line 165 is outside the try
get_keyword_suggestions(title, category, use_trends) ==
    LET trending_keywords == _get_trending_keywords(use_trends)
    IN IF ~trending_keywords.raised /\ ~trending_keywords.none
          /\ trending_keywords.value # Dicts(<<>>)
       THEN {[raised |-> FALSE, value |-> trending_keywords.value]}
       ELSE _extract_basic_keywords(title, category)

\* the rows of related queries the service answers (keyword_research.py:107-127)
RowValues == [keyword : {"k1", "k2"}, score : {1, 2}, type : {"rising", "top"}]

\* the answers of the service, in the order the loop of lines 108-127 reads them
RowLists == UNION {[1..n -> RowValues] : n \in 0..MaxRows}

\* keyword_research.py:129-136: the first row of every keyword is kept
RECURSIVE unique_keywords(_, _)
unique_keywords(trending_keywords, seen) ==
    IF trending_keywords = <<>> THEN <<>>
    ELSE LET kw == Head(trending_keywords)
         IN IF kw.keyword \in seen
            THEN unique_keywords(Tail(trending_keywords), seen)
            ELSE <<kw>> \o unique_keywords(Tail(trending_keywords), seen \cup {kw.keyword})

\* place of element i in sorted(s, key=score, reverse=True), a stable sort
ScoreRank(s, i) ==
    Cardinality({j \in DOMAIN s : \/ s[j].score > s[i].score
                                  \/ (s[j].score = s[i].score /\ j <= i)})

\* keyword_research.py:138
sorted_by_score(s) ==
    [k \in DOMAIN s |-> s[CHOOSE i \in DOMAIN s : ScoreRank(s, i) = k]]

\* the entry of the cache under the key of the request (keyword_research.py:83-90)
NoEntry == [present |-> FALSE, keywords |-> <<>>, timestamp |-> isoformat(0)]

EntryTimes == {Today - a : a \in {0, CACHE_DAYS - 1, CACHE_DAYS, CACHE_DAYS + 1}}

\* the entries an earlier lookup can have written (keyword_research.py:140-145)
Entries ==
    {NoEntry} \cup
    {[present |-> TRUE, keywords |-> sorted_by_score(unique_keywords(r, {})),
      timestamp |-> isoformat(t)] : r \in {x \in RowLists : Len(x) <= 1}, t \in EntryTimes}

\* the trend service: not constructed (keyword_research.py:28-32), failing, or
\* answering rows
NoService == [state |-> "absent", rows |-> <<>>]

Services ==
    {NoService, [state |-> "raises", rows |-> <<>>]}
        \cup {[state |-> "answers", rows |-> r] : r \in RowLists}

\* the failure of the lookup reaches the caller
get_trending_keywords_no_except(entry, service, now) ==
    IF entry.present /\ now - fromisoformat(entry.timestamp) < CACHE_DAYS
    THEN [value |-> Dicts(entry.keywords), raised |-> FALSE, queried |-> FALSE,
          cache |-> entry]
    ELSE IF service.state = "answers"
    THEN LET result == sorted_by_score(unique_keywords(service.rows, {}))
         IN [value |-> Dicts(result), raised |-> FALSE, queried |-> TRUE,
             cache |-> [present |-> TRUE, keywords |-> result,
                        timestamp |-> isoformat(now)]]
    ELSE [value |-> Dicts(<<>>), raised |-> TRUE,
          queried |-> service.state # "absent", cache |-> entry]

\* keyword_research.py:81-151
get_trending_keywords(entry, service, now) ==
    IF entry.present /\ now - fromisoformat(entry.timestamp) < CACHE_DAYS
    THEN [value |-> Dicts(entry.keywords), raised |-> FALSE, queried |-> FALSE,
          cache |-> entry]
    ELSE IF service.state = "answers"
    THEN LET result == sorted_by_score(unique_keywords(service.rows, {}))
         IN [value |-> Dicts(result), raised |-> FALSE, queried |-> TRUE,
             cache |-> [present |-> TRUE, keywords |-> result,
                        timestamp |-> isoformat(now)]]
    ELSE [value |-> Dicts(<<>>), raised |-> FALSE,
          queried |-> service.state # "absent", cache |-> entry]

\* the values of USE_GOOGLE_TRENDS (keyword_research.py:199)
UseTrends == {"true", "True", "false"}

KeywordInit == ImageInit

\* a direct call of get_trending_keywords
CallGetTrendingKeywords ==
    /\ call.op = "none"
    /\ \E entry \in Entries, service \in Services :
        LET r == get_trending_keywords(entry, service, Today)
        IN call' = [op |-> "get_trending_keywords",
                    title |-> <<>>, category |-> NoCategory, use_trends |-> "true",
                    entry |-> entry, service |-> service,
                    result |-> r.value, raised |-> r.raised, queried |-> r.queried,
                    cache |-> r.cache, again |-> Strs({}), same_process |-> TRUE]
    /\ UNCHANGED <<ledger, file, catalog, clock, pc, page, products, idx,
                   products_processed, max_products, force_update, dry_run,
                   processed_ids, startLen, genCalls, updateCalls, served,
                   fetched, outcome, exit, returned, response>>

\* worker.py:175: the suggestions for one item
CallGetKeywordSuggestions ==
    /\ call.op = "none"
    /\ \E title \in KeywordTitles, category \in Categories,
          use_trends \in UseTrends, entry \in Entries :
        \E r \in get_keyword_suggestions(title, category, use_trends) :
            call' = [op |-> "get_keyword_suggestions",
                     title |-> title, category |-> category,
                     use_trends |-> use_trends,
                     entry |-> entry, service |-> NoService,
                     result |-> r.value, raised |-> r.raised, queried |-> FALSE,
                     cache |-> entry, again |-> Strs({}), same_process |-> TRUE]
    /\ UNCHANGED <<ledger, file, catalog, clock, pc, page, products, idx,
                   products_processed, max_products, force_update, dry_run,
                   processed_ids, startLen, genCalls, updateCalls, served,
                   fetched, outcome, exit, returned, response>>

\* the same request once more, in the same process or in another one: a
\* process keeps its hash seed, so it orders the same set the same way
CallAgain ==
    /\ call.op = "get_keyword_suggestions"
    /\ \E same_process \in BOOLEAN :
        \E r \in get_keyword_suggestions(call.title, call.category, call.use_trends) :
            /\ same_process => r.value = call.result
            /\ call' = [call EXCEPT !.op = "again", !.again = r.value,
                                    !.same_process = same_process]
    /\ UNCHANGED <<ledger, file, catalog, clock, pc, page, products, idx,
                   products_processed, max_products, force_update, dry_run,
                   processed_ids, startLen, genCalls, updateCalls, served,
                   fetched, outcome, exit, returned, response>>

KeywordNext ==
    \/ CallGetTrendingKeywords
    \/ CallGetKeywordSuggestions
    \/ CallAgain

KeywordSpec == KeywordInit /\ [][KeywordNext]_vars

\* ------------------------------------------------------------ stored files
\* models.py:33-54: a ledger file written by another version of the program

MaxStored == 2        \* results of a stored file

\* keys a stored result can lack: none, an optional one, a required one, or
\* the timestamp
AbsentSets == {{}, {"new_slug"}, {"product_link"}, {"timestamp"}}

\* unknown keys a stored result can carry
ExtraSets == {{}, {"reviewed_by"}}

StoredFiles ==
    UNION {{[exists |-> TRUE, parses |-> TRUE,
             data |-> [i \in 1..n |->
                         [to_dict(OptimizationResult(ids[i], "success", i))
                             EXCEPT !.absent = ab[i], !.extra = ex[i]]]] :
              ids \in [1..n -> Products], ab \in [1..n -> AbsentSets],
              ex \in [1..n -> ExtraSets]} :
           n \in 0..MaxStored}

\* the process has not started: some file is in place
LoadInit ==
    /\ file \in StoredFiles
    /\ ledger = <<>>
    /\ outcome = "none"
    /\ catalog = [p \in Products |-> CatalogAfter(<<>>, p)]
    /\ clock = MaxStored + 1
    /\ pc = "idle"
    /\ page = 1
    /\ products = <<>>
    /\ idx = 1
    /\ products_processed = 0
    /\ max_products = None
    /\ force_update = FALSE
    /\ dry_run = TRUE
    /\ processed_ids = {}
    /\ startLen = 0
    /\ genCalls = {}
    /\ updateCalls = {}
    /\ served = 0
    /\ fetched = 0
    /\ exit = "none"
    /\ returned = <<>>
    /\ response = "none"
    /\ call = NoCall

LoadNext ==
    \/ Restart
    \/ GetResults
    \/ ClearHistory

LoadSpec == LoadInit /\ [][LoadNext]_vars

\* ------------------------------------------------------------ faults
\* models.py:56-73 and worker.py:31: the write of the ledger file fails, or
\* the process stops during a run and is started again

\* models.py:64-68: what a write that raised leaves on disk: the file as it
\* was when open() raised, or the truncated text when json.dump raised
failed_write(f) == {f, Corrupt}

\* models.py:70-73 with the except branch of 67-68: the result is appended
\* in memory, the write raises, the error is printed and add_result returns
RecordResultSaveFails ==
    /\ pc = "record"
    /\ file = save_history(ledger)    \* bound: one failed write at a time
    /\ LET result == OptimizationResult(products[idx], status_of(dry_run),
                                        result_timestamp(clock))
       IN  ledger' = add_result(ledger, result)
    /\ file' \in failed_write(file)
    /\ clock' = clock + 1
    /\ products_processed' = products_processed + 1
    /\ idx' = idx + 1
    /\ pc' = "item"
    /\ outcome' = "recorded"
    /\ UNCHANGED <<catalog, page, products, max_products, force_update,
                   dry_run, processed_ids, startLen, genCalls, updateCalls,
                   exit, returned, response,
                   served, fetched>>
    /\ UNCHANGED call

\* the process stops at a step of a run and a new process is started: the run
\* and the in-memory ledger are gone, worker.py:31 loads the file
Crash ==
    /\ pc # "idle"
    /\ ledger' = OptimizationHistory(file).results
    /\ outcome' = "restarted"
    /\ pc' = "idle"
    /\ page' = 1
    /\ products' = <<>>
    /\ idx' = 1
    /\ products_processed' = 0
    /\ max_products' = None
    /\ force_update' = FALSE
    /\ dry_run' = TRUE
    /\ processed_ids' = {}
    /\ startLen' = 0
    /\ genCalls' = {}
    /\ updateCalls' = {}
    /\ served' = 0
    /\ fetched' = 0
    /\ exit' = "none"
    /\ returned' = <<>>
    /\ response' = "none"
    /\ UNCHANGED <<file, catalog, clock>>
    /\ UNCHANGED call

\* the process stops inside save_history, between the open(..., 'w') that
\* truncates the file (models.py:64) and the end of json.dump (line 65); the
\* new process finds the truncated file
CrashInSave ==
    /\ pc = "record"
    /\ file' = Corrupt
    /\ ledger' = OptimizationHistory(file').results
    /\ outcome' = "restarted"
    /\ pc' = "idle"
    /\ page' = 1
    /\ products' = <<>>
    /\ idx' = 1
    /\ products_processed' = 0
    /\ max_products' = None
    /\ force_update' = FALSE
    /\ dry_run' = TRUE
    /\ processed_ids' = {}
    /\ startLen' = 0
    /\ genCalls' = {}
    /\ updateCalls' = {}
    /\ served' = 0
    /\ fetched' = 0
    /\ exit' = "none"
    /\ returned' = <<>>
    /\ response' = "none"
    /\ UNCHANGED <<catalog, clock>>
    /\ UNCHANGED call

FaultNext ==
    \/ StartRun
    \/ RunStep
    \/ OptimizeContent
    \/ RecordResultSaveFails
    \/ Crash
    \/ CrashInSave

FaultSpec == Init /\ [][FaultNext]_vars

\* ------------------------------------------------------------ stored files and appends
\* models.py:33-73: the process has started on a stored file and appends

\* models.py:33-36 done: the ledger holds what load_history kept of the file
StoreInit ==
    /\ file \in StoredFiles
    /\ ledger = OptimizationHistory(file).results
    /\ outcome = "loaded"
    /\ catalog = [p \in Products |-> CatalogAfter(<<>>, p)]
    /\ clock = MaxStored + 1
    /\ pc = "idle"
    /\ page = 1
    /\ products = <<>>
    /\ idx = 1
    /\ products_processed = 0
    /\ max_products = None
    /\ force_update = FALSE
    /\ dry_run = TRUE
    /\ processed_ids = {}
    /\ startLen = 0
    /\ genCalls = {}
    /\ updateCalls = {}
    /\ served = 0
    /\ fetched = 0
    /\ exit = "none"
    /\ returned = <<>>
    /\ response = "none"
    /\ call = NoCall

StoreNext ==
    \/ AddResult
    \/ GetResults
    \/ Restart

StoreSpec == StoreInit /\ [][StoreNext]_vars

\* ------------------------------------------------------------ properties

\* positions of the ledger the current run appended
NewEntries == {i \in DOMAIN ledger : i > startLen}

\* product identifiers in the ledger when the current run started
IdsAtStart == {ledger[i].product_id : i \in 1..startLen}

\* results the current run appended
Appended == Len(ledger) - startLen

\* the steps of one item between the skip decision and the next item
Processing == {"gen_title", "initial_update", "gen_content", "full_update", "record"}

\* C1: in a run with force_update=false, a product that had a ledger entry
\* when the run started gets no generation call, no catalog update and no
\* new ledger entry in that run.
C1_ProcessedAreSkipped ==
    (pc # "idle" /\ ~force_update) =>
        \A p \in IdsAtStart :
            /\ p \notin genCalls
            /\ p \notin updateCalls
            /\ \A i \in NewEntries : ledger[i].product_id # p

\* a run without force_update has just skipped a product of the ledger
C1_Witness ==
    /\ outcome = "skipped"
    /\ ~force_update
    /\ products[idx - 1] \in IdsAtStart

\* C2: a dry run never calls the catalog update and appends only "preview"
\* results; a run that is not a dry run appends only "success" results.
C2_DryRunStatus ==
    pc # "idle" =>
        /\ dry_run => /\ updateCalls = {}
                      /\ \A i \in NewEntries : ledger[i].status = "preview"
        /\ ~dry_run => \A i \in NewEntries : ledger[i].status = "success"

\* a dry run ends after generating for and recording at least one item
C2_Witness ==
    /\ pc = "return"
    /\ dry_run
    /\ genCalls # {}
    /\ NewEntries # {}

\* C3: every item that passes the skip decision leaves exactly one new
\* result in the ledger, and the result of an item whose generation or
\* catalog write raised has an "error" status.
C3_AlwaysRecorded ==
    [][(pc \in Processing /\ pc' \notin Processing) =>
          /\ Len(ledger') = Len(ledger) + 1
          /\ ledger'[Len(ledger')].product_id = products[idx]
          /\ (outcome' = "item_error" => ledger'[Len(ledger')].status = "error")]_vars

\* C4: an exception raised while one item is processed leaves the run at
\* the next item of the same page, with the page, the counter, the ledger
\* and its file as they were.
C4_ItemFailureIsolated ==
    [][outcome' = "item_error" =>
          /\ pc' = "item"
          /\ idx' = idx + 1
          /\ products' = products
          /\ page' = page
          /\ products_processed' = products_processed
          /\ ledger' = ledger
          /\ file' = file]_vars

\* an item is recorded after an earlier item of the same run, which skips
\* nothing, had failed
C4_Witness ==
    /\ outcome = "recorded"
    /\ force_update
    /\ Passed > Appended

\* C5: when get_products raises the paging loop is left at once with the
\* ledger and its file untouched, and once the loop is left the only step
\* of the run is its return, which changes neither ledger, file nor catalog.
C5_PageFailureEndsRun ==
    [][/\ outcome' = "page_error" =>
            (pc' = "return" /\ exit' = "fetch_error" /\ ledger' = ledger /\ file' = file)
       /\ pc = "return" =>
            (pc' = "idle" /\ ledger' = ledger /\ file' = file /\ catalog' = catalog)]_vars

\* a page fetch fails in a run that has already appended results to a
\* ledger holding earlier ones
C5_Witness ==
    /\ pc = "return"
    /\ exit = "fetch_error"
    /\ startLen > 0
    /\ NewEntries # {}

C7_Terminates == []<>(pc = "idle")

\* the catalog is exhausted in a run in which every item failed
C7_Witness ==
    /\ pc = "return"
    /\ exit = "exhausted"
    /\ products_processed = 0
    /\ genCalls # {}

\* C8: once a run has finished it has returned every ledger entry, and no request to
\* the optimize-content trigger fails as a whole.
C8_RunAlwaysExposesLedger ==
    /\ response # "500"
    /\ (pc = "idle" /\ exit # "none") =>
          /\ Len(returned) = Len(ledger)
          /\ \A i \in DOMAIN ledger : \E j \in DOMAIN returned : returned[j] = ledger[i]

\* every ledger entry of product p is a preview
OnlyPreview(p) ==
    /\ \E i \in DOMAIN ledger : ledger[i].product_id = p
    /\ \A i \in DOMAIN ledger : ledger[i].product_id = p => ledger[i].status = "preview"

\* the for loop is about to decide on an item it is allowed to process
Deciding == pc = "item" /\ idx <= Len(products) /\ products_processed < Limit

\* C9: a run with dry_run=false and force_update=false does not skip a
\* product whose only ledger entries are previews.
C9_PreviewNotProcessed ==
    [][(Deciding /\ ~dry_run /\ ~force_update /\ OnlyPreview(products[idx]))
          => pc' = "gen_title"]_vars

\* C10: a run with force_update=false skips an item modified within the
\* last 30 days.
C10_RecentSkipped ==
    [][(Deciding /\ ~force_update
          /\ is_recently_optimized(catalog[products[idx]].age))
          => pc' # "gen_title"]_vars

\* C11: in a run with force_update=true no item is skipped, every item that
\* reaches the recording step gets a new entry appended for it, and every
\* entry the ledger already held, also one of the same product, stays where
\* it was, unchanged.
C11_ForceUpdateAppends ==
    [][(pc # "idle" /\ force_update) =>
          /\ outcome' # "skipped"
          /\ Len(ledger') >= Len(ledger)
          /\ \A i \in DOMAIN ledger : ledger'[i] = ledger[i]
          /\ pc = "record" =>
                /\ Len(ledger') = Len(ledger) + 1
                /\ ledger'[Len(ledger')].product_id = products[idx]]_vars

\* a force_update run has recorded a product that had an entry before the
\* run, and that entry is still there
C11_Witness ==
    /\ outcome = "recorded"
    /\ force_update
    /\ \E i \in 1..startLen : ledger[i].product_id = ledger[Len(ledger)].product_id

C16_ClearHistory ==
    [][/\ outcome' = "cleared" =>
            /\ ledger' = <<>>
            /\ get_results(ledger') = <<>>
            /\ get_processed_ids(ledger') = {}
            /\ ~file'.exists
            /\ OptimizationHistory(file').results = <<>>
       /\ (outcome = "cleared" /\ pc' = "fetch") => processed_ids' = {}
       /\ (pc # "idle" /\ processed_ids = {}) => outcome' # "skipped"]_vars

\* after a clear, a run without force_update processes a product that an
\* earlier run had recorded as a success
C16_Witness ==
    /\ pc = "gen_title"
    /\ ~force_update
    /\ startLen = 0
    /\ catalog[products[idx]].content = "new"

C15_LoadTolerant ==
    /\ outcome # "load_error"
    /\ (outcome = "loaded" /\ ~(file.exists /\ file.parses)) => ledger = <<>>

\* a process has started on a file that does not parse
C15_Witness ==
    /\ outcome = "loaded"
    /\ file = Corrupt
    /\ ledger = <<>>

\* C17: get_results returns every entry of the ledger, ascending by
\* timestamp, and the entries of one timestamp in the order the ledger
\* holds them.
C17_ResultsOrdered ==
    outcome = "read" =>
        /\ Len(returned) = Len(ledger)
        /\ \A i, j \in DOMAIN returned :
              i < j => returned[i].timestamp <= returned[j].timestamp
        /\ \A x \in DOMAIN ledger :
              SelectSeq(returned, LAMBDA e : e.timestamp = ledger[x].timestamp)
                = SelectSeq(ledger, LAMBDA e : e.timestamp = ledger[x].timestamp)

\* get_results has reordered a ledger in which two different results share
\* a timestamp
C17_Witness ==
    /\ outcome = "read"
    /\ returned # ledger
    /\ \E i, j \in DOMAIN ledger :
          /\ i < j
          /\ ledger[i].timestamp = ledger[j].timestamp
          /\ ledger[i] # ledger[j]

\* C18: a "success" entry is appended only by the recording step of an item
\* of a run that is not a dry run, after the title/slug update and then the
\* full update of that item have returned; at that moment the catalog holds
\* the generated name, slug, description, meta description and keyword of
\* the product, and the recording step leaves the catalog as it is.
C18_SuccessMeansWritten ==
    [][/\ (~dry_run /\ pc' = "gen_content" /\ pc # "gen_content") =>
            (pc = "initial_update" /\ catalog'[products[idx]].name = "new")
       /\ (~dry_run /\ pc' = "record") =>
            /\ pc = "full_update"
            /\ outcome' = "ok"
            /\ catalog[products[idx]].name = "new"
       /\ (/\ Len(ledger') > Len(ledger)
           /\ ledger'[Len(ledger')].status = "success") =>
            /\ pc = "record"
            /\ ~dry_run
            /\ products[idx] \in updateCalls
            /\ catalog[products[idx]].name = "new"
            /\ catalog[products[idx]].content = "new"
            /\ catalog' = catalog]_vars

\* the first result of a process that started on an empty ledger is a
\* success, and the catalog holds what was generated for the product
C18_Witness ==
    /\ outcome = "recorded"
    /\ ~dry_run
    /\ Len(ledger) = 1
    /\ ledger[1].status = "success"
    /\ catalog[ledger[1].product_id].content = "new"

\* no line of the response starts with key
Absent(content, key) == \A i \in DOMAIN content : content[i].key # key

\* C19: when the response has no "New Title:" line the product keeps its
\* name: no empty name is sent to the catalog and the result records no
\* other new name than the current one; the same for "Slug:" and the slug.
C19_AbsentMeansKeepCurrent ==
    /\ (call.op = "update_product" /\ Absent(call.content, "New Title:")) =>
          /\ call.payload.name # ""
          /\ catalog[call.product].name = "orig"
    /\ (call.op = "update_product" /\ Absent(call.content, "Slug:")) =>
          call.payload.slug # ""
    /\ (call.op = "OptimizationResult" /\ Absent(call.content, "New Title:")) =>
          call.result.new_product_name \in {call.result.product_name, "None"}
    /\ (call.op = "OptimizationResult" /\ Absent(call.content, "Slug:")) =>
          call.result.new_slug \in {call.result.old_slug, "None"}

\* C20 as stated: a run without max_products is never stopped by a cap: it
\* ends because the catalog is exhausted or a page fetch failed.
C20_NoneIsUnbounded ==
    (pc = "return" /\ max_products = None) => exit \in {"exhausted", "fetch_error"}

\* C20 amended: a run without max_products is capped at the default limit
\* of 10: it appends at most 10 results, goes through the items of the pages
\* until the catalog is exhausted, a page fetch fails or 10 results are
\* appended, and is stopped by the cap exactly when it has appended 10.
C20_NoneIsDefaultLimit ==
    (pc # "idle" /\ max_products = None) =>
        /\ Appended <= DEFAULT_LIMIT
        /\ Appended = DEFAULT_LIMIT => pc \notin (Processing \cup {"fetch"})
        /\ pc = "return" => (exit = "cap" <=> Appended = DEFAULT_LIMIT)

\* a run without max_products is stopped after its tenth result
C20_Witness ==
    /\ pc = "return"
    /\ max_products = None
    /\ exit = "cap"
    /\ Appended = DEFAULT_LIMIT

\* the words the claim puts after the title for a variant
ColorAndSize(v) ==
    IF v.color # "" /\ v.size # "" THEN <<v.color, v.size>>
    ELSE IF v.color # "" THEN <<v.color>>
    ELSE <<v.size>>

\* the variant with this index has a color or a size
HasAttributes(variants, n) ==
    /\ n \in DOMAIN variants
    /\ (variants[n].color # "" \/ variants[n].size # "")

\* C21: generate_gallery_alt_tags gives image 1 the alt "T" and the title
\* "T - Main Product Image"; an image k > 1 whose variant k-1 has a color
\* and/or a size the alt "T <color> <size>" and the title "T - <color> <size>";
\* an image k > 1 without variant attributes the alt "T" and the title
\* "T - Gallery Image k".
C21_AltTitleMapping ==
    call.op \in {"generate_gallery_alt_tags", "update_images"} =>
        /\ DOMAIN call.new_image_texts = DOMAIN call.product_images
        /\ \A k \in DOMAIN call.new_image_texts :
            LET T == call.title
                text == call.new_image_texts[k]
            IN IF k = 1
               THEN /\ text.alt = Text(T, FALSE, <<>>, 0)
                    /\ text.title = Text(T, TRUE, <<"Main Product Image">>, 0)
               ELSE IF HasAttributes(call.variants, k - 1)
               THEN /\ text.alt = Text(T, FALSE, ColorAndSize(call.variants[k - 1]), 0)
                    /\ text.title = Text(T, TRUE, ColorAndSize(call.variants[k - 1]), 0)
               ELSE /\ text.alt = Text(T, FALSE, <<>>, 0)
                    /\ text.title = Text(T, TRUE, <<"Gallery Image">>, k)

\* "Blue Hoodie" with three images, variant 1 = Blue/M and variant 2 without
\* attributes gives the three pairs of texts of the example
C21_Witness ==
    /\ call.op = "generate_gallery_alt_tags"
    /\ call.title = "Blue Hoodie"
    /\ Len(call.product_images) = 3
    /\ call.variants = <<[color |-> "Blue", size |-> "M"], NoVariant>>
    /\ call.new_image_texts =
        << [alt |-> Text("Blue Hoodie", FALSE, <<>>, 0),
            title |-> Text("Blue Hoodie", TRUE, <<"Main Product Image">>, 0)],
           [alt |-> Text("Blue Hoodie", FALSE, <<"Blue", "M">>, 0),
            title |-> Text("Blue Hoodie", TRUE, <<"Blue", "M">>, 0)],
           [alt |-> Text("Blue Hoodie", FALSE, <<>>, 0),
            title |-> Text("Blue Hoodie", TRUE, <<"Gallery Image">>, 3)] >>

\* C22: every gallery image of the update carries the text of the variant
\* whose index is its gallery ordinal (its overall position minus the number
\* of product images), whatever the number of product images.
C22_GalleryOrdinalVariant ==
    call.op = "update_images" =>
        \A n \in DOMAIN call.gallery_images :
            HasAttributes(call.variants, n) =>
                call.updated_gallery_images[n].alt =
                    Text(call.title, FALSE, ColorAndSize(call.variants[n]), 0)

\* the entry of the request's key is less than seven days old
FreshEntry(entry) ==
    entry.present /\ Today - fromisoformat(entry.timestamp) < CACHE_DAYS

\* C23: a suggestion request whose cache entry is less than 7 days old is
\* answered with the cached candidates and without a trend query; an entry
\* of 7 days or more is not served and stays in the cache until a lookup
\* overwrites it.
C23_FreshEntryServed ==
    call.op = "get_keyword_suggestions" =>
        /\ FreshEntry(call.entry) =>
            (call.result = Dicts(call.entry.keywords) /\ ~call.queried)
        /\ (call.entry.present /\ ~FreshEntry(call.entry)) =>
            (call.cache = call.entry \/ call.queried)

\* C24: the keyword provider never raises: a lookup that fails (no service,
\* or the query raises) yields no trend candidates, and
\* get_keyword_suggestions returns phrases of the heuristic.
C24_NeverRaises ==
    /\ call.op = "get_trending_keywords" =>
        /\ ~call.raised
        /\ (~FreshEntry(call.entry) /\ call.service.state # "answers") =>
            (call.result = Dicts(<<>>) /\ call.cache = call.entry)
    /\ call.op \in {"get_keyword_suggestions", "again"} =>
        /\ ~call.raised
        /\ call.result.dicts = <<>>
        /\ call.result.strs \subseteq basic_keywords(call.title, call.category)
        /\ (basic_keywords(call.title, call.category) # {}) => call.result.strs # {}

\* the query of a stale entry raised and the caller got an empty list
C24_Witness ==
    /\ call.op = "get_trending_keywords"
    /\ call.entry.present
    /\ ~FreshEntry(call.entry)
    /\ call.service.state = "raises"
    /\ call.queried
    /\ ~call.raised
    /\ call.result = Dicts(<<>>)

\* C25: with the trend mode disabled, two requests with the same title and
\* category return the same set of phrases, of at most 10 phrases, in the
\* same process or in two.
C25_SameInputSamePhrases ==
    (call.op = "again" /\ lower(call.use_trends) # "true") =>
        /\ call.again = call.result
        /\ Cardinality(call.result.strs) <= TOP

\* C28: loading tolerates stored results of other versions: when a result
\* lacks a key or carries an unknown one, every result of the file is still
\* loaded, in the order of the file.
C28_EveryRecordLoaded ==
    (outcome = "loaded" /\ file.exists /\ file.parses) =>
        /\ Len(ledger) = Len(file.data)
        /\ \A i \in DOMAIN ledger : ledger[i].product_id = file.data[i].product_id

\* C26: results are persisted synchronously: once add_result has returned,
\* the ledger file holds exactly the results in memory, in their order.
C26_PersistedSynchronously ==
    outcome = "recorded" => file = save_history(ledger)

\* C27: when the process stops at any point of a run and is started again,
\* every result whose append had completed is in the reloaded ledger.
C27_CrashResumable ==
    [][(pc # "idle" /\ outcome' = "restarted") =>
          /\ Len(ledger') >= Len(ledger)
          /\ \A i \in DOMAIN ledger : ledger'[i] = ledger[i]]_vars

\* a step taken while an item is in progress belongs to that item
SerialStep ==
    pc \in Processing =>
        /\ products' = products
        /\ startLen' = startLen
        /\ \/ idx' = idx /\ pc' \in Processing
           \/ idx' = idx + 1 /\ pc' = "item"
        /\ genCalls' \subseteq genCalls \cup {products[idx]}
        /\ updateCalls' \subseteq updateCalls \cup {products[idx]}
        /\ \A p \in Products : p # products[idx] => catalog'[p] = catalog[p]
        /\ \/ ledger' = ledger
           \/ /\ Len(ledger') = Len(ledger) + 1
              /\ ledger'[Len(ledger')].product_id = products[idx]

\* C29: processing is strictly serial: while an item is in progress every
\* step belongs to it - the page and the run stay, the step either continues
\* the same item or ends it and returns to the loop - and a generation call,
\* a catalog write or a ledger append of that step is for that item alone.
C29_StrictlySerial == [][SerialStep]_vars

\* the second item of a page is being recorded after the first was recorded
C29_Witness ==
    /\ pc = "record"
    /\ idx = 2
    /\ Appended = 1
    /\ ledger[Len(ledger)].product_id = products[1]

\* C30: at the end of a run with dry_run = false, every product whose catalog
\* record carries a rewritten title has a success entry in the ledger: none
\* is left with its title and slug overwritten and nothing recorded.
C30_NoUnrecordedOverwrite ==
    (pc = "return" /\ ~dry_run) =>
        \A p \in Products :
            catalog[p].name = "new" =>
                \E i \in DOMAIN ledger :
                    ledger[i].product_id = p /\ ledger[i].status = "success"

\* C31: in a run with force_update = false the entries the run appended have
\* pairwise different product identifiers, also when the catalog serves an
\* identifier twice, on one page or on two.
C31_OncePerProduct ==
    (pc # "idle" /\ ~force_update) =>
        \A i, j \in NewEntries :
            i # j => ledger[i].product_id # ledger[j].product_id

\* the entries a file holds, each named by its product and its timestamp
StoredEntries(f) ==
    {[product_id |-> f.data[i].product_id, timestamp |-> f.data[i].timestamp] :
        i \in DOMAIN f.data}

\* no step other than clear_history takes an entry out of the file
KeepsEntries ==
    outcome' # "cleared" => StoredEntries(file) \subseteq StoredEntries(file')

\* C32: the entries of the ledger file never shrink except through
\* clear_history: after startups, runs and add_result calls every entry that
\* was once in the file is still in it.
C32_FileNeverShrinks == [][KeepsEntries]_vars


\* C33: the new alt and title mappings of a processed item have the ordinal
\* keys of the old mappings, those of all product and all gallery images, and
\* every gallery image of the update carries the text generated for its
\* ordinal.
C33_TextOnEveryImage ==
    call.op \in {"generate_gallery_alt_tags", "update_images"} =>
        /\ DOMAIN call.new_image_alts = DOMAIN call.old_image_alts
        /\ DOMAIN call.new_image_titles = DOMAIN call.old_image_titles
        /\ call.op = "update_images" =>
            \A n \in DOMAIN call.gallery_images :
                LET k == Len(call.product_images) + n
                IN /\ k \in DOMAIN call.new_image_texts
                   /\ call.updated_gallery_images[n].alt =
                          call.new_image_texts[k].alt
                   /\ call.updated_gallery_images[n].title =
                          call.new_image_texts[k].title

====
